---- MODULE Spec2Model ----
(***************************************************************************)
(* picsapp: the asynchronous conversion pipeline (conversion_tasks queue,  *)
(* conversion worker, startup reconciler), the pictures store and the      *)
(* websocket hub, modelled from database.go and the server's main file.    *)
(*                                                                         *)
(* Time: `now` is the process clock in nanosecond ticks (time.Now().       *)
(* UnixNano()).  CURRENT_TIMESTAMP and time.RFC3339 keep whole seconds     *)
(* only; a second is NanosPerSec ticks here.                               *)
(*                                                                         *)
(* Identifiers are file names.  A name is a record [base, ext]; base is    *)
(* [n, stem, sfx]: "<n>" (stem "", sfx -1), "<n>_<sfx>" after a collision  *)
(* suffix, "<n>_<stem>" for a picture stored by the pre-conversion server. *)
(***************************************************************************)
EXTENDS Integers, Sequences, FiniteSets, TLC

\* ---------------------------------------------------------------- bounds
NumWorkers == 2
NumLikers == 2
MaxTasks == 2
MaxNow == 2
MaxLikes == 2
MaxRestarts == 1
NumConns == 2
NanosPerSec == 2
MaxLimit == 2

Workers == 1..NumWorkers
Likers == 1..NumLikers
Conns == 1..NumConns

\* ------------------------------------------------------- names and paths
uploadDir == "uploads"
originalDir == "uploads/original"

NanoBase(n) == [n |-> n, stem |-> "", sfx |-> -1]
MkID(base, ext) == [base |-> base, ext |-> ext]
\* the empty string passed for "no picture id"; stored as NULL by NULLIF(?, '')
EmptyID == MkID(NanoBase(-1), "")
\* strings.TrimSuffix(id, filepath.Ext(id))
TrimExt(id) == id.base
\* fmt.Sprintf("%s_%d", base, time.Now().UnixNano())
WithSuffix(base, n) == [base EXCEPT !.sfx = n]
\* strings.HasSuffix(strings.ToLower(id), ".webp")
IsWebp(id) == id.ext = "webp"
Join(dir, name) == [dir |-> dir, name |-> name]
\* mutant: the locator names the raw-input directory
UrlOfOriginal(id) == <<"/uploads/original/", id>>

\* fmt.Sprintf("/uploads/%s", newID)
UrlOf(id) == <<"/uploads/", id>>

\* whole seconds of a clock value (CURRENT_TIMESTAMP, Format(time.RFC3339))
Sec(n) == n \div NanosPerSec

\* the second at which the zone "DST" leaves summer time, and the offset from UTC
\* (in seconds) it has until then
DstEnd == 1
DstShift == 1

\* the file name a client gives its upload, and a picture left by the old server
UserFilename == MkID([n |-> -1, stem |-> "cat", sfx |-> -1], "jpg")
LegacyID == MkID([n |-> 0, stem |-> "cat", sfx |-> -1], "jpg")
OrphanName == MkID(NanoBase(0), "jpg")
UnknownID == MkID(NanoBase(-2), "webp")

VARIABLES
    now,        \* clock, in nanosecond ticks
    zone,       \* time.Local of the process: "UTC", or "DST" (a zone with summer time)
    tasks,      \* table conversion_tasks: sequence of rows, index = id (AUTOINCREMENT)
    pictures,   \* table pictures: sequence of rows in rowid order
    files,      \* filesystem: function path -> content
    mainpc,     \* position of main(): "reconcile", "enqueue" or "run"
    recTodo,    \* CreateConversionTask calls the reconciler has still to make
    wpc,        \* worker -> position in startConversionWorker / processConversionTask
    wtask,      \* worker -> id of the task ClaimNextTask selected (0: none)
    wnew,       \* worker -> newID computed for the claimed task
    werr,       \* worker -> error returned by processConversionTask ("": nil)
    wsnap,      \* worker -> ranked list read for the broadcast
    lpc,        \* like handler -> position in handleLike
    lid,        \* like handler -> id of the request
    lsnap,      \* like handler -> ranked list read for the broadcast
    clients,    \* Hub.clients: the connections registered with the hub
    hubpc,      \* Hub.run: "select" (waiting on its channels) or "fanout" (in the range loop)
    hubTodo,    \* connections the current fan-out has still to write to
    hubMsg,     \* the message being fanned out
    hubCur,     \* the connection whose WriteMessage the hub loop is waiting in (0: none)
    cpc,        \* connection -> position of its handleWebSocket call and read loop
    cstate,     \* connection -> "open", "stalled" (the peer takes no data) or "broken"
    closedBy,   \* connection -> the conn.Close() calls made on it, by hub case
    got,        \* connection -> the last message its peer received (none once it is gone)
    csnap,      \* connection -> ranked list read for its initial message
    ninit,      \* history: connection -> initial messages written to it
    restarts,   \* number of process restarts so far
    claimed,    \* history: task id -> number of times ClaimNextTask returned it
    likes0,     \* history: pictures row -> likes when the row was first seen
    likeOK,     \* history: pictures row -> number of IncrementLikes calls that returned nil
    listed      \* the last answer of handleList: the limit asked for and the rows returned

vars == <<now, zone, tasks, pictures, files, mainpc, recTodo, wpc, wtask, wnew, werr, wsnap,
          lpc, lid, lsnap, clients, hubpc, hubTodo, hubMsg, hubCur,
          cpc, cstate, closedBy, got, csnap, ninit,
          restarts, claimed, likes0, likeOK, listed>>

dbVars == <<tasks, pictures, claimed, likes0, likeOK>>
workerVars == <<wpc, wtask, wnew, werr, wsnap>>
likerVars == <<lpc, lid, lsnap>>
connVars == <<cpc, cstate, closedBy, got, csnap, ninit>>
hubVars == <<clients, hubpc, hubTodo, hubMsg, hubCur, connVars>>
mainVars == <<mainpc, recTodo, restarts>>

\* ------------------------------------------------------------------ time
\* the offset from UTC of time.Now() in the process's zone
Offset(t) == IF zone = "DST" /\ Sec(t) < DstEnd THEN DstShift ELSE 0
\* t.Format(time.RFC3339): the wall-clock reading of the zone, to the second,
\* followed by the zone's offset ("2006-01-02T15:04:05Z07:00")
RFC3339(t) == [wall |-> Sec(t) + Offset(t), off |-> Offset(t)]
\* time.Parse(time.RFC3339, s): the instant, in seconds
Parse(s) == s.wall - s.off
\* comparison of two such texts as SQLite compares TEXT values, byte by byte:
\* the wall-clock part first, the offset after it
TextGE(a, b) == a.wall > b.wall \/ (a.wall = b.wall /\ a.off >= b.off)

\* ------------------------------------------------------------ filesystem
Exists(fs, p) == p \in DOMAIN fs
\* os.WriteFile / os.Create + io.Copy
WriteFile(fs, p, c) == [q \in DOMAIN fs \cup {p} |-> IF q = p THEN c ELSE fs[q]]
\* mutant: a removal that leaves the file in place
RemoveNothing(fs, p) == fs

\* os.Remove, a missing file ignored by every caller
Remove(fs, p) == [q \in DOMAIN fs \ {p} |-> fs[q]]
\* imaging.Decode accepts JPEG, PNG, GIF and WebP data, nothing else
Decodable(c) == c \in {"img", "webp"}

\* ------------------------------------------------------- table pictures
Rows(seq) == 1..Len(seq)
PicIds(pics) == {pics[r].id : r \in Rows(pics)}

\* ORDER BY likes DESC, uploaded_at DESC: row a may precede row b
MayPrecede(a, b) ==
    \/ a.likes > b.likes
    \/ a.likes = b.likes /\ TextGE(a.uploaded_at, b.uploaded_at)

Perms(n) == {f \in [1..n -> 1..n] : \A i, j \in 1..n : i # j => f[i] # f[j]}

\* mutant: the list is served from the likes the rows had when they were first
\* read, not from the table as it is now
GetAllPicturesSortedByLikesCached(pics) ==
    {[k \in 1..Len(pics) |-> [pics[f[k]] EXCEPT !.likes = likes0[f[k]]]] :
        f \in {g \in Perms(Len(pics)) :
                 \A i, j \in 1..Len(pics) :
                    i < j => MayPrecede([pics[g[i]] EXCEPT !.likes = likes0[g[i]]],
                                        [pics[g[j]] EXCEPT !.likes = likes0[g[j]]])}}

\* GetAllPicturesSortedByLikes: every result the ORDER BY allows (rows with
\* equal keys come in an order SQL leaves open)
GetAllPicturesSortedByLikes(pics) ==
    {[k \in Rows(pics) |-> pics[f[k]]] :
        f \in {g \in Perms(Len(pics)) :
                 \A i, j \in Rows(pics) : i < j => MayPrecede(pics[g[i]], pics[g[j]])}}

\* GetLastPictures: ORDER BY uploaded_at DESC LIMIT n, every result the ORDER BY
\* allows; uploaded_at is compared as the TEXT it is stored as
GetLastPictures(pics, n) ==
    {SubSeq(s, 1, IF n < Len(s) THEN n ELSE Len(s)) :
        s \in {[k \in Rows(pics) |-> pics[f[k]]] :
                  f \in {g \in Perms(Len(pics)) :
                           \A i, j \in Rows(pics) :
                              i < j => TextGE(pics[g[i]].uploaded_at,
                                              pics[g[j]].uploaded_at)}}}

\* mutant: a pictures table whose id column is not a key
AddPictureOKAnyId(pics, pic) == TRUE

\* AddPicture: INSERT INTO pictures; id is the PRIMARY KEY
AddPictureOK(pics, pic) == pic.id \notin PicIds(pics)
AddPicture(pics, pic) == Append(pics, pic)

\* mutant: the re-converted picture is stored as a new record (likes and
\* uploaded_at take the values of a new row)
UpdatePictureFileAsNewRecord(pics, oldID, newID, newURL) ==
    [r \in 1..Len(pics) |->
        IF pics[r].id = oldID
        THEN [pics[r] EXCEPT !.id = newID, !.url = newURL, !.likes = 0,
                             !.uploaded_at = RFC3339(now)]
        ELSE pics[r]]

\* mutant: the UPDATE without "WHERE id = ?"
UpdatePictureFileEveryRow(pics, oldID, newID, newURL) ==
    [r \in 1..Len(pics) |-> [pics[r] EXCEPT !.id = newID, !.url = newURL]]

\* UpdatePictureFile: UPDATE pictures SET id = ?, url = ? WHERE id = ?
UpdatePictureFileOK(pics, oldID, newID) ==
    \/ oldID \notin PicIds(pics)
    \/ newID = oldID
    \/ newID \notin PicIds(pics)

\* mutant: the rename written as DELETE and INSERT of the row as it was first
\* read, with the likes it had then
UpdatePictureFileFromRead(pics, oldID, newID, newURL) ==
    [r \in 1..Len(pics) |->
        IF pics[r].id = oldID
        THEN [pics[r] EXCEPT !.id = newID, !.url = newURL, !.likes = likes0[r]]
        ELSE pics[r]]

UpdatePictureFile(pics, oldID, newID, newURL) ==
    [r \in Rows(pics) |->
        IF pics[r].id = oldID THEN [pics[r] EXCEPT !.id = newID, !.url = newURL]
        ELSE pics[r]]

\* mutant: the increment written as a value computed from an earlier read of the
\* row (the count the handler saw when the row was first read), not in the UPDATE
LikesPlusOneFromRead(pics, id) ==
    [r \in 1..Len(pics) |->
        IF pics[r].id = id THEN [pics[r] EXCEPT !.likes = likes0[r] + 1] ELSE pics[r]]

\* IncrementLikes: UPDATE pictures SET likes = likes + 1 WHERE id = ?
LikesPlusOne(pics, id) ==
    [r \in Rows(pics) |->
        IF pics[r].id = id THEN [pics[r] EXCEPT !.likes = @ + 1] ELSE pics[r]]

\* mutant: IncrementLikes without its rowsAffected == 0 branch
RowsAffectedAssumed(pics, id) == 1

RowsAffected(pics, id) == Cardinality({r \in Rows(pics) : pics[r].id = id})
\* IncrementLikes: the error it returns when the statement itself succeeds
IncrementLikesErr(pics, id) ==
    IF RowsAffected(pics, id) = 0 THEN "picture not found" ELSE "nil"

\* ------------------------------------------------ table conversion_tasks
\* mutant: the path is taken while its task is pending only
HasPathPending(ts, path) ==
    \E i \in 1..Len(ts) : ts[i].original_path = path /\ ts[i].status = "pending"

HasPath(ts, path) == \E i \in Rows(ts) : ts[i].original_path = path

\* mutant: a plain INSERT into a table whose original_path is not UNIQUE
CreateConversionTaskNotUnique(ts, path, name, pictureID, t) ==
    Append(ts, [original_path |-> path, original_name |-> name,
                picture_id |-> pictureID, status |-> "pending", error |-> "",
                created_at |-> Sec(t)])

\* mutant: INSERT OR REPLACE, the row of the path is written anew
CreateConversionTaskReplace(ts, path, name, pictureID, t) ==
    IF \E i \in 1..Len(ts) : ts[i].original_path = path
    THEN [i \in 1..Len(ts) |->
            IF ts[i].original_path = path
            THEN [original_path |-> path, original_name |-> name,
                  picture_id |-> pictureID, status |-> "pending", error |-> "",
                  created_at |-> Sec(t)]
            ELSE ts[i]]
    ELSE Append(ts, [original_path |-> path, original_name |-> name,
                     picture_id |-> pictureID, status |-> "pending", error |-> "",
                     created_at |-> Sec(t)])

\* CreateConversionTask: INSERT OR IGNORE ... (original_path is UNIQUE; status and
\* created_at take their column defaults).  The column updated_at is written by
\* every statement below and read by none: it is left out of the rows.
CreateConversionTask(ts, path, name, pictureID, t) ==
    IF HasPath(ts, path) THEN ts
    ELSE Append(ts, [original_path |-> path, original_name |-> name,
                     picture_id |-> pictureID, status |-> "pending", error |-> "",
                     created_at |-> Sec(t)])

Pending(ts) == {i \in Rows(ts) : ts[i].status = "pending"}

\* mutant: ORDER BY created_at DESC, the newest pending row
NewestPending(ts) ==
    {i \in 1..Len(ts) : /\ ts[i].status = "pending"
                         /\ \A j \in 1..Len(ts) : ts[j].status = "pending"
                               => ts[i].created_at >= ts[j].created_at}

\* mutant: LIMIT 1 OFFSET 1, the oldest pending row is skipped
OldestPendingOffset(ts) ==
    {i \in Pending(ts) : \E k \in Pending(ts) :
        /\ k # i
        /\ \A j \in Pending(ts) : ts[k].created_at <= ts[j].created_at
        /\ \A j \in Pending(ts) \ {k} : ts[i].created_at <= ts[j].created_at}

\* SELECT ... WHERE status = 'pending' ORDER BY created_at LIMIT 1: the rows the
\* query may return (the order of rows with equal created_at is left open by SQL)
OldestPending(ts) ==
    {i \in Pending(ts) : \A j \in Pending(ts) : ts[i].created_at <= ts[j].created_at}

\* mutant: the UPDATE without "AND status = 'pending'"
ClaimRowsAffectedUnconditional(ts, id) == 1

\* UPDATE conversion_tasks SET status = 'processing' ... WHERE id = ? AND status = 'pending'
ClaimRowsAffected(ts, id) == IF ts[id].status = "pending" THEN 1 ELSE 0

\* mutant: the UPDATE without "id = ?", every pending row is taken
SetProcessingEveryPending(ts, id) ==
    [i \in 1..Len(ts) |->
        IF ts[i].status = "pending" THEN [ts[i] EXCEPT !.status = "processing"] ELSE ts[i]]

SetProcessing(ts, id) == [ts EXCEPT ![id].status = "processing"]

\* mutant: the UPDATE of MarkTaskCompleted without "WHERE id = ?"
MarkTaskCompletedEveryRow(ts, id) ==
    [i \in 1..Len(ts) |-> [ts[i] EXCEPT !.status = "completed", !.error = ""]]

\* MarkTaskCompleted / MarkTaskFailed
MarkTaskCompleted(ts, id) == [ts EXCEPT ![id].status = "completed", ![id].error = ""]

\* mutant: the UPDATE of MarkTaskFailed without "error = ?"
MarkTaskFailedStatusOnly(ts, id, msg) == [ts EXCEPT ![id].status = "failed"]

MarkTaskFailed(ts, id, msg) == [ts EXCEPT ![id].status = "failed", ![id].error = msg]

\* history bookkeeping kept in step with the two tables
Grow(h, seq) == IF Len(seq) > Len(h) THEN Append(h, 0) ELSE h

\* ------------------------------------------------------------------ Init
LegacyPicture ==
    [id |-> LegacyID, filename |-> UserFilename, url |-> UrlOf(LegacyID),
     likes |-> 1, uploaded_at |-> RFC3339(0)]

NoSnap == <<>>
NoList == [limit |-> 0, rows |-> <<>>]

InitVolatile ==
    /\ wpc = [w \in Workers |-> "claim"]
    /\ wtask = [w \in Workers |-> 0]
    /\ wnew = [w \in Workers |-> EmptyID]
    /\ werr = [w \in Workers |-> ""]
    /\ wsnap = [w \in Workers |-> NoSnap]
    /\ lpc = [h \in Likers |-> "idle"]
    /\ lid = [h \in Likers |-> EmptyID]
    /\ lsnap = [h \in Likers |-> NoSnap]
    /\ clients = {}
    /\ hubpc = "select"
    /\ hubTodo = {}
    /\ hubMsg = NoSnap
    /\ hubCur = 0
    /\ cpc = [c \in Conns |-> "idle"]
    /\ cstate = [c \in Conns |-> "open"]
    /\ closedBy = [c \in Conns |-> <<>>]
    /\ got = [c \in Conns |-> NoSnap]
    /\ csnap = [c \in Conns |-> NoSnap]
    /\ ninit = [c \in Conns |-> 0]

\* a data directory the pre-conversion server left behind (one stored picture,
\* one raw upload waiting in uploads/original), or a fresh one
Init ==
    /\ now = 1
    /\ zone \in {"UTC", "DST"}
    /\ listed = NoList
    /\ tasks = <<>>
    /\ claimed = <<>>
    /\ \E legacy \in BOOLEAN :
         /\ pictures = IF legacy THEN <<LegacyPicture>> ELSE <<>>
         /\ likes0 = IF legacy THEN <<1>> ELSE <<>>
         /\ likeOK = IF legacy THEN <<0>> ELSE <<>>
         /\ files = IF legacy
                    THEN WriteFile(WriteFile(<<>>, Join(uploadDir, LegacyID), "img"),
                                   Join(originalDir, OrphanName), "img")
                    ELSE <<>>
    /\ mainpc = "reconcile"
    /\ recTodo = <<>>
    /\ restarts = 0
    /\ InitVolatile

\* ----------------------------------------------------------------- clock
Tick ==
    /\ now < MaxNow
    /\ now' = now + 1
    /\ UNCHANGED <<zone, listed>>
    /\ UNCHANGED <<dbVars, files, mainVars, workerVars, likerVars, hubVars>>

\* ---------------------------------------------------- startup reconciler
\* os.ReadDir(originalDir): the regular files of the directory, sorted by name
OriginalNames(fs) == {p.name : p \in {q \in DOMAIN fs : q.dir = originalDir}}
ReadDir(fs) ==
    CHOOSE s \in [1..Cardinality(OriginalNames(fs)) -> OriginalNames(fs)] :
        \A i, j \in DOMAIN s : i < j => s[i].base.n < s[j].base.n

\* the CreateConversionTask calls of one run, in the order the two loops make them
LegacyCalls(ranked, fs) ==
    SelectSeq([k \in DOMAIN ranked |->
                  [path |-> Join(uploadDir, ranked[k].id), name |-> ranked[k].filename,
                   pictureID |-> ranked[k].id]],
              LAMBDA c : ~IsWebp(c.pictureID) /\ Exists(fs, c.path))
\* mutant: the second loop passes the file name as the picture id
OriginalCallsAsTargets(entries) ==
    [k \in DOMAIN entries |->
        [path |-> Join(originalDir, entries[k]), name |-> entries[k],
         pictureID |-> entries[k]]]
OriginalCalls(entries) ==
    [k \in DOMAIN entries |->
        [path |-> Join(originalDir, entries[k]), name |-> entries[k], pictureID |-> EmptyID]]

\* enqueueLegacyConversionTasks up to its first CreateConversionTask call
ReconcileStart(dbErr, dirErr) ==
    /\ mainpc = "reconcile"
    /\ IF dbErr
       THEN /\ recTodo' = <<>>
            /\ mainpc' = "run"
       ELSE \E ranked \in GetAllPicturesSortedByLikes(pictures) :
              /\ recTodo' = LegacyCalls(ranked, files)
                              \o (IF dirErr THEN <<>> ELSE OriginalCalls(ReadDir(files)))
              /\ mainpc' = IF recTodo' = <<>> THEN "run" ELSE "enqueue"
    /\ UNCHANGED <<now, zone, listed, dbVars, files, restarts, workerVars, likerVars, hubVars>>

\* one CreateConversionTask call of the reconciler (an error is logged and skipped)
ReconcileStep(dbErr) ==
    /\ mainpc = "enqueue"
    /\ LET c == Head(recTodo) IN
         /\ tasks' = IF dbErr THEN tasks
                     ELSE CreateConversionTask(tasks, c.path, c.name, c.pictureID, now)
         /\ claimed' = Grow(claimed, tasks')
    /\ recTodo' = Tail(recTodo)
    /\ mainpc' = IF recTodo' = <<>> THEN "run" ELSE "enqueue"
    /\ UNCHANGED <<now, zone, listed, pictures, likes0, likeOK, files, restarts, workerVars, likerVars,
                   hubVars>>

\* ---------------------------------------------------------- handleUpload
\* the raw file is stored as uploads/original/<UnixNano><ext>, then queued; the
\* clock value of an upload is taken to be fresh (no file or task has that name)
Upload(content, dbErr) ==
    /\ mainpc = "run"
    /\ Len(tasks) < MaxTasks
    /\ LET name == MkID(NanoBase(now), "jpg")
           path == Join(originalDir, name) IN
         /\ ~Exists(files, path)
         /\ ~HasPath(tasks, path)
         /\ files' = WriteFile(files, path, content)
         /\ tasks' = IF dbErr THEN tasks
                     ELSE CreateConversionTask(tasks, path, UserFilename, EmptyID, now)
         /\ claimed' = Grow(claimed, tasks')
    /\ UNCHANGED <<now, zone, listed, pictures, likes0, likeOK, mainVars, workerVars, likerVars,
                   hubVars>>

\* ------------------------------------------------- startConversionWorker
\* ClaimNextTask up to its UPDATE: Begin and the SELECT of the oldest pending row
\* mutant: the worker goroutine is started before enqueueLegacyConversionTasks
ClaimSelectEarly(w, dbErr) ==
    /\ mainpc # "down"
    /\ wpc[w] = "claim"
    /\ IF dbErr \/ Pending(tasks) = {}
       THEN UNCHANGED <<wpc, wtask>>
       ELSE \E id \in OldestPending(tasks) :
              /\ wtask' = [wtask EXCEPT ![w] = id]
              /\ wpc' = [wpc EXCEPT ![w] = "update"]
    /\ UNCHANGED <<now, zone, listed, dbVars, files, mainVars, wnew, werr, wsnap, likerVars, hubVars>>

ClaimSelect(w, dbErr) ==
    /\ mainpc = "run"
    /\ wpc[w] = "claim"
    /\ IF dbErr \/ Pending(tasks) = {}
       THEN UNCHANGED <<wpc, wtask>>
       ELSE \E id \in OldestPending(tasks) :
              /\ wtask' = [wtask EXCEPT ![w] = id]
              /\ wpc' = [wpc EXCEPT ![w] = "update"]
    /\ UNCHANGED <<now, zone, listed, dbVars, files, mainVars, wnew, werr, wsnap, likerVars, hubVars>>

\* ClaimNextTask from its UPDATE to its return: the conditional UPDATE and Commit
ClaimUpdate(w, dbErr) ==
    /\ wpc[w] = "update"
    /\ IF dbErr \/ ClaimRowsAffected(tasks, wtask[w]) = 0
       THEN /\ wtask' = [wtask EXCEPT ![w] = 0]
            /\ wpc' = [wpc EXCEPT ![w] = "claim"]
            /\ UNCHANGED <<tasks, claimed>>
       ELSE /\ tasks' = SetProcessing(tasks, wtask[w])
            /\ claimed' = [claimed EXCEPT ![wtask[w]] = @ + 1]
            /\ wpc' = [wpc EXCEPT ![w] = "convert"]
            /\ UNCHANGED wtask
    /\ UNCHANGED <<now, zone, listed, pictures, likes0, likeOK, files, mainVars, wnew, werr,
                   wsnap, likerVars, hubVars>>

\* the destination name: the clock, or the target picture's name without its
\* extension; suffixed with the clock when a file of that name exists
NewID(task, fs, t) ==
    LET base == IF task.picture_id # EmptyID THEN TrimExt(task.picture_id)
                ELSE NanoBase(t)
        first == MkID(base, "webp")
    IN IF Exists(fs, Join(uploadDir, first)) THEN MkID(WithSuffix(base, t), "webp")
       ELSE first

Fail(w, msg) ==
    /\ werr' = [werr EXCEPT ![w] = msg]
    /\ wpc' = [wpc EXCEPT ![w] = "mark"]

\* processConversionTask: os.ReadFile, convertToWebP (decoding fails on data that
\* is no image; convErr: the encoder fails), the destination name (os.Stat)
Convert(w, ioErr, convErr) ==
    /\ wpc[w] = "convert"
    /\ LET task == tasks[wtask[w]] IN
         IF ioErr \/ ~Exists(files, task.original_path)
         THEN Fail(w, "read original") /\ UNCHANGED wnew
         ELSE IF convErr \/ ~Decodable(files[task.original_path])
         THEN Fail(w, "convert to webp") /\ UNCHANGED wnew
         ELSE /\ wnew' = [wnew EXCEPT ![w] = NewID(task, files, now)]
              /\ wpc' = [wpc EXCEPT ![w] = "write"]
              /\ UNCHANGED werr
    /\ UNCHANGED <<now, zone, listed, dbVars, files, mainVars, wtask, wsnap, likerVars, hubVars>>

\* processConversionTask: os.WriteFile(newPath, processed)
WriteConverted(w, ioErr) ==
    /\ wpc[w] = "write"
    /\ IF ioErr
       THEN Fail(w, "write converted file") /\ UNCHANGED files
       ELSE /\ files' = WriteFile(files, Join(uploadDir, wnew[w]), "webp")
            /\ wpc' = [wpc EXCEPT ![w] = "record"]
            /\ UNCHANGED werr
    /\ UNCHANGED <<now, zone, listed, dbVars, mainVars, wtask, wnew, wsnap, likerVars, hubVars>>

\* processConversionTask: db.UpdatePictureFile (re-conversion) or db.AddPicture
Record(w, dbErr) ==
    /\ wpc[w] = "record"
    /\ LET task == tasks[wtask[w]]
           pic == [id |-> wnew[w], filename |-> task.original_name,
                   url |-> UrlOf(wnew[w]), likes |-> 0, uploaded_at |-> RFC3339(now)]
       IN IF task.picture_id # EmptyID
          THEN IF dbErr \/ ~UpdatePictureFileOK(pictures, task.picture_id, wnew[w])
               THEN Fail(w, "update picture record") /\ UNCHANGED pictures
               ELSE /\ pictures' = UpdatePictureFile(pictures, task.picture_id, wnew[w],
                                                     UrlOf(wnew[w]))
                    /\ wpc' = [wpc EXCEPT ![w] = "cleanup"]
                    /\ UNCHANGED werr
          ELSE IF dbErr \/ ~AddPictureOK(pictures, pic)
               THEN Fail(w, "insert picture") /\ UNCHANGED pictures
               ELSE /\ pictures' = AddPicture(pictures, pic)
                    /\ wpc' = [wpc EXCEPT ![w] = "cleanup"]
                    /\ UNCHANGED werr
    /\ likes0' = Grow(likes0, pictures')
    /\ likeOK' = Grow(likeOK, pictures')
    /\ UNCHANGED <<now, zone, listed, tasks, claimed, files, mainVars, wtask, wnew, wsnap,
                   likerVars, hubVars>>

\* processConversionTask: remove the old output file (re-conversion, when its path
\* differs from the new one) and the raw input; a failed removal is logged
Cleanup(w, oldErr, rawErr) ==
    /\ wpc[w] = "cleanup"
    /\ LET task == tasks[wtask[w]]
           oldPath == Join(uploadDir, task.picture_id)
           newPath == Join(uploadDir, wnew[w])
           fs1 == IF task.picture_id # EmptyID /\ oldPath # newPath /\ ~oldErr
                  THEN Remove(files, oldPath) ELSE files
       IN files' = IF rawErr THEN fs1 ELSE Remove(fs1, task.original_path)
    /\ wpc' = [wpc EXCEPT ![w] = "snapshot"]
    /\ UNCHANGED <<now, zone, listed, dbVars, mainVars, wtask, wnew, werr, wsnap, likerVars, hubVars>>

\* processConversionTask: db.GetAllPicturesSortedByLikes for the broadcast
Snapshot(w, dbErr) ==
    /\ wpc[w] = "snapshot"
    /\ IF dbErr
       THEN /\ wpc' = [wpc EXCEPT ![w] = "mark"]
            /\ UNCHANGED wsnap
       ELSE \E ranked \in GetAllPicturesSortedByLikes(pictures) :
              /\ wsnap' = [wsnap EXCEPT ![w] = ranked]
              /\ wpc' = [wpc EXCEPT ![w] = "send"]
    /\ UNCHANGED <<now, zone, listed, dbVars, files, mainVars, wtask, wnew, werr, likerVars, hubVars>>

\* mutant: the three channels served without regard to where the loop is
HubReadyAnywhere == mainpc = "run"

\* Hub.run is at its select, ready to receive from one of its three channels
HubReady == mainpc = "run" /\ hubpc = "select"

\* Hub.run, case message := <-h.broadcast: the loop takes the message and starts
\* the fan-out over h.clients
HubTake(msg) ==
    /\ HubReady
    /\ IF clients = {}
       THEN UNCHANGED <<hubpc, hubTodo, hubMsg>>
       ELSE /\ hubpc' = "fanout"
            /\ hubTodo' = clients
            /\ hubMsg' = msg
    /\ UNCHANGED <<clients, hubCur, connVars>>

\* processConversionTask: hub.broadcast <- update (unbuffered: completes when the
\* hub loop receives it), then return nil
Send(w) ==
    /\ wpc[w] = "send"
    /\ HubTake(wsnap[w])
    /\ wsnap' = [wsnap EXCEPT ![w] = NoSnap]
    /\ wpc' = [wpc EXCEPT ![w] = "mark"]
    /\ UNCHANGED <<now, zone, listed, dbVars, files, mainVars, wtask, wnew, werr, likerVars>>

\* startConversionWorker: db.MarkTaskFailed / db.MarkTaskCompleted, the returned
\* error dropped, and back to the top of the loop
Mark(w, dbErr) ==
    /\ wpc[w] = "mark"
    /\ tasks' = IF dbErr THEN tasks
                ELSE IF werr[w] # "" THEN MarkTaskFailed(tasks, wtask[w], werr[w])
                ELSE MarkTaskCompleted(tasks, wtask[w])
    /\ wpc' = [wpc EXCEPT ![w] = "claim"]
    /\ wtask' = [wtask EXCEPT ![w] = 0]
    /\ wnew' = [wnew EXCEPT ![w] = EmptyID]
    /\ werr' = [werr EXCEPT ![w] = ""]
    /\ UNCHANGED <<now, zone, listed, pictures, claimed, likes0, likeOK, files, mainVars,
                   wsnap, likerVars, hubVars>>

\* ------------------------------------------------------------ handleLike
\* the ids a request may name: a stored picture's, one a picture had before its
\* re-conversion, or one no picture ever had
RequestIds ==
    (PicIds(pictures) \cup {tasks[i].picture_id : i \in Rows(tasks)} \cup {UnknownID})
        \ {EmptyID}

Total(h) == IF h = <<>> THEN 0 ELSE
    LET S[k \in 0..Len(h)] == IF k = 0 THEN 0 ELSE S[k - 1] + h[k] IN S[Len(h)]

\* handleLike: db.IncrementLikes(id); an error (store error, or no row affected)
\* is answered 404 and ends the request
Like(h, id, dbErr) ==
    /\ mainpc = "run"
    /\ lpc[h] = "idle"
    /\ Total(likeOK) < MaxLikes
    /\ IF dbErr \/ RowsAffected(pictures, id) = 0
       THEN UNCHANGED <<pictures, likeOK, lpc, lid>>
       ELSE /\ pictures' = LikesPlusOne(pictures, id)
            /\ likeOK' = [r \in Rows(likeOK) |->
                             IF pictures[r].id = id THEN likeOK[r] + 1 ELSE likeOK[r]]
            /\ lpc' = [lpc EXCEPT ![h] = "snapshot"]
            /\ lid' = [lid EXCEPT ![h] = id]
    /\ UNCHANGED <<now, zone, listed, tasks, claimed, likes0, files, mainVars, workerVars, lsnap,
                   hubVars>>

\* handleLike: db.GetAllPicturesSortedByLikes for the broadcast
LikeSnapshot(h, dbErr) ==
    /\ lpc[h] = "snapshot"
    /\ IF dbErr
       THEN /\ lpc' = [lpc EXCEPT ![h] = "get"]
            /\ UNCHANGED lsnap
       ELSE \E ranked \in GetAllPicturesSortedByLikes(pictures) :
              /\ lsnap' = [lsnap EXCEPT ![h] = ranked]
              /\ lpc' = [lpc EXCEPT ![h] = "send"]
    /\ UNCHANGED <<now, zone, listed, dbVars, files, mainVars, workerVars, lid, hubVars>>

\* handleLike: hub.broadcast <- update
LikeSend(h) ==
    /\ lpc[h] = "send"
    /\ HubTake(lsnap[h])
    /\ lsnap' = [lsnap EXCEPT ![h] = NoSnap]
    /\ lpc' = [lpc EXCEPT ![h] = "get"]
    /\ UNCHANGED <<now, zone, listed, dbVars, files, mainVars, workerVars, lid>>

\* handleLike: db.GetPicture(id) and the response
LikeRespond(h) ==
    /\ lpc[h] = "get"
    /\ lpc' = [lpc EXCEPT ![h] = "idle"]
    /\ lid' = [lid EXCEPT ![h] = EmptyID]
    /\ UNCHANGED <<now, zone, listed, dbVars, files, mainVars, workerVars, lsnap, hubVars>>

\* -------------------------------------------------------------- handleList
\* db.GetLastPictures(n) and the response; a store error is answered 500
List(n, dbErr) ==
    /\ mainpc = "run"
    /\ IF dbErr
       THEN UNCHANGED listed
       ELSE \E rows \in GetLastPictures(pictures, n) :
              listed' = [limit |-> n, rows |-> rows]
    /\ UNCHANGED <<now, zone, dbVars, files, mainVars, workerVars, likerVars, hubVars>>

\* --------------------------------------------------------------- restart
\* the process stops at any point and main() starts again, dt ticks later: the
\* database and the files stay, every goroutine and the hub are gone
Restart(dt) ==
    /\ restarts < MaxRestarts
    /\ now + dt <= MaxNow
    /\ now' = now + dt
    /\ UNCHANGED <<zone, listed>>
    /\ restarts' = restarts + 1
    /\ mainpc' = "reconcile"
    /\ recTodo' = <<>>
    /\ wpc' = [w \in Workers |-> "claim"]
    /\ wtask' = [w \in Workers |-> 0]
    /\ wnew' = [w \in Workers |-> EmptyID]
    /\ werr' = [w \in Workers |-> ""]
    /\ wsnap' = [w \in Workers |-> NoSnap]
    /\ lpc' = [h \in Likers |-> "idle"]
    /\ lid' = [h \in Likers |-> EmptyID]
    /\ lsnap' = [h \in Likers |-> NoSnap]
    /\ clients' = {}
    /\ hubpc' = "select"
    /\ hubTodo' = {}
    /\ hubMsg' = NoSnap
    /\ hubCur' = 0
    /\ cpc' = [c \in Conns |-> IF cpc[c] = "idle" THEN "idle" ELSE "done"]
    /\ cstate' = [c \in Conns |-> IF cpc[c] = "idle" THEN cstate[c] ELSE "broken"]
    /\ got' = [c \in Conns |-> NoSnap]
    /\ csnap' = [c \in Conns |-> NoSnap]
    /\ UNCHANGED <<dbVars, files, closedBy, ninit>>

\* ------------------------------------------- handleWebSocket and Hub.run
otherVars == <<now, zone, listed, dbVars, files, mainVars, workerVars, likerVars>>

\* reads and writes on the connection fail: the peer is gone, or the hub has
\* closed the connection
Dead(c) == cstate[c] = "broken" \/ closedBy[c] # <<>>

\* handleWebSocket: upgrader.Upgrade succeeded; the handler is at hub.register <- conn
ConnUpgrade(c) ==
    /\ mainpc = "run"
    /\ cpc[c] = "idle"
    /\ cpc' = [cpc EXCEPT ![c] = "register"]
    /\ UNCHANGED <<otherVars, clients, hubpc, hubTodo, hubMsg, hubCur, cstate, closedBy,
                   got, csnap, ninit>>

\* Hub.run, case conn := <-h.register
HubRegister(c) ==
    /\ HubReady
    /\ cpc[c] = "register"
    /\ clients' = clients \cup {c}
    /\ cpc' = [cpc EXCEPT ![c] = "initial"]
    /\ UNCHANGED <<otherVars, hubpc, hubTodo, hubMsg, hubCur, cstate, closedBy, got,
                   csnap, ninit>>

\* handleWebSocket: db.GetAllPicturesSortedByLikes for the initial message; on an
\* error the list is replaced by an empty one
ConnSnapshot(c, dbErr) ==
    /\ cpc[c] = "initial"
    /\ \E ranked \in (IF dbErr THEN {<<>>} ELSE GetAllPicturesSortedByLikes(pictures)) :
         csnap' = [csnap EXCEPT ![c] = ranked]
    /\ cpc' = [cpc EXCEPT ![c] = "writing"]
    /\ UNCHANGED <<otherVars, clients, hubpc, hubTodo, hubMsg, hubCur, cstate, closedBy,
                   got, ninit>>

\* handleWebSocket: conn.WriteMessage(initial), entered right after the list is
\* read, returns (its error is not looked at); the read loop goroutine starts.
\* There is no write deadline: the call does not return while the peer is stalled
ConnWriteInitial(c) ==
    /\ cpc[c] = "writing"
    /\ cstate[c] # "stalled"
    /\ IF Dead(c)
       THEN UNCHANGED <<got, ninit>>
       ELSE /\ got' = [got EXCEPT ![c] = csnap[c]]
            /\ ninit' = [ninit EXCEPT ![c] = @ + 1]
    /\ csnap' = [csnap EXCEPT ![c] = NoSnap]
    /\ cpc' = [cpc EXCEPT ![c] = "reading"]
    /\ UNCHANGED <<otherVars, clients, hubpc, hubTodo, hubMsg, hubCur, cstate, closedBy>>

\* the read loop: conn.ReadMessage returns an error; the goroutine is at
\* hub.unregister <- conn
ConnReadError(c) ==
    /\ cpc[c] = "reading"
    /\ Dead(c)
    /\ cpc' = [cpc EXCEPT ![c] = "unregister"]
    /\ UNCHANGED <<otherVars, clients, hubpc, hubTodo, hubMsg, hubCur, cstate, closedBy,
                   got, csnap, ninit>>

\* mutant: the unregister case without its membership test
UnregisterCloseAlways(cs, c) == TRUE

\* Hub.run, case conn := <-h.unregister: if _, ok := h.clients[conn]; ok
UnregisterCloses(cs, c) == c \in cs

\* Hub.run, case conn := <-h.unregister
HubUnregister(c) ==
    /\ HubReady
    /\ cpc[c] = "unregister"
    /\ IF UnregisterCloses(clients, c)
       THEN /\ clients' = clients \ {c}
            /\ closedBy' = [closedBy EXCEPT ![c] = Append(@, "unregister")]
            /\ got' = [got EXCEPT ![c] = NoSnap]
       ELSE UNCHANGED <<clients, closedBy, got>>
    /\ cpc' = [cpc EXCEPT ![c] = "done"]
    /\ UNCHANGED <<otherVars, hubpc, hubTodo, hubMsg, hubCur, cstate, csnap, ninit>>

\* the peer of a connection goes away, stops taking data, takes data again
ConnBreak(c) ==
    /\ cpc[c] \notin {"idle", "done"}
    /\ cstate[c] # "broken"
    /\ cstate' = [cstate EXCEPT ![c] = "broken"]
    /\ got' = [got EXCEPT ![c] = NoSnap]
    /\ UNCHANGED <<otherVars, clients, hubpc, hubTodo, hubMsg, hubCur, cpc, closedBy,
                   csnap, ninit>>
ConnStall(c) ==
    /\ cpc[c] \notin {"idle", "done"}
    /\ cstate[c] = "open"
    /\ cstate' = [cstate EXCEPT ![c] = "stalled"]
    /\ UNCHANGED <<otherVars, clients, hubpc, hubTodo, hubMsg, hubCur, cpc, closedBy,
                   got, csnap, ninit>>
ConnResume(c) ==
    /\ cstate[c] = "stalled"
    /\ cstate' = [cstate EXCEPT ![c] = "open"]
    /\ UNCHANGED <<otherVars, clients, hubpc, hubTodo, hubMsg, hubCur, cpc, closedBy,
                   got, csnap, ninit>>

\* an unrecovered panic: the process ends, with all its goroutines and connections
Exit ==
    /\ mainpc' = "down"
    /\ hubpc' = "down"
    /\ wpc' = [w \in Workers |-> "down"]
    /\ lpc' = [h \in Likers |-> "down"]
    /\ cpc' = [c \in Conns |-> IF cpc[c] = "idle" THEN "idle" ELSE "done"]
    /\ cstate' = [c \in Conns |-> IF cpc[c] = "idle" THEN cstate[c] ELSE "broken"]
    /\ clients' = {}
    /\ hubTodo' = {}
    /\ hubMsg' = NoSnap
    /\ hubCur' = 0
    /\ got' = [c \in Conns |-> NoSnap]
    /\ UNCHANGED <<now, zone, listed, dbVars, files, recTodo, restarts, wtask, wnew, werr, wsnap,
                   lid, lsnap, closedBy, csnap, ninit>>

\* mutant: a connection whose write failed stays in the map
PruneNothing(cs, c) == cs

\* Hub.run, broadcast case: delete(h.clients, conn) after a failed write
Prune(cs, c) == cs \ {c}

\* the fan-out goes on to the next connection of the range, or back to the select
FanoutRest(todo) ==
    /\ hubTodo' = todo
    /\ hubpc' = IF todo = {} THEN "select" ELSE "fanout"
    /\ hubMsg' = IF todo = {} THEN NoSnap ELSE hubMsg
    /\ hubCur' = 0

\* Hub.run, broadcast case: conn.WriteMessage(message) on connection c returns.
\* A write that overlaps the handler's write of the initial message on the same
\* connection (two goroutines in WriteMessage, which the connection does not
\* allow) ends in one of: both frames sent ("ok"), frames mixed so that the peer
\* drops the connection ("garbled"), a panic in the handler's goroutine, which
\* net/http recovers ("handler"), a panic in the hub's goroutine, which ends the
\* process ("hub")
HubWriteReturn(c, outcome) ==
    IF Dead(c)
    THEN /\ outcome = "ok"
         /\ clients' = Prune(clients, c)
         /\ closedBy' = [closedBy EXCEPT ![c] = Append(@, "broadcast")]
         /\ got' = [got EXCEPT ![c] = NoSnap]
         /\ FanoutRest(hubTodo \ {c})
         /\ UNCHANGED <<otherVars, cpc, cstate, csnap, ninit>>
    ELSE IF outcome = "hub"
    THEN /\ cpc[c] = "writing"
         /\ Exit
    ELSE /\ outcome # "ok" => cpc[c] = "writing"
         /\ cstate' = IF outcome = "garbled" THEN [cstate EXCEPT ![c] = "broken"] ELSE cstate
         /\ got' = [got EXCEPT ![c] = IF outcome = "garbled" THEN NoSnap ELSE hubMsg]
         /\ cpc' = IF outcome = "handler" THEN [cpc EXCEPT ![c] = "done"] ELSE cpc
         /\ FanoutRest(hubTodo \ {c})
         /\ UNCHANGED <<otherVars, clients, closedBy, csnap, ninit>>

\* Hub.run, broadcast case: the range loop reaches connection c (in the order of
\* a map iteration) and calls conn.WriteMessage; with a stalled peer the call
\* does not return
HubWrite(c, outcome) ==
    /\ hubpc = "fanout"
    /\ c \in hubTodo
    /\ IF cstate[c] = "stalled" /\ ~Dead(c)
       THEN /\ outcome = "ok"
            /\ hubpc' = "blocked"
            /\ hubCur' = c
            /\ UNCHANGED <<otherVars, clients, hubTodo, hubMsg, connVars>>
       ELSE HubWriteReturn(c, outcome)

\* the call the hub loop was waiting in returns
HubUnblock(outcome) ==
    /\ hubpc = "blocked"
    /\ cstate[hubCur] # "stalled"
    /\ HubWriteReturn(hubCur, outcome)

\* --------------------------------------------------------- specification
Bool == BOOLEAN

\* the steps of the conversion workers ws: every store call and the write of the
\* output may fail; faults is the set of outcomes (TRUE: fails) of reading the
\* input, of the encoder and of the two removals
WorkerNext(ws, faults) ==
    \/ \E w \in ws, dbErr \in Bool : ClaimSelect(w, dbErr)
    \/ \E w \in ws, dbErr \in Bool : ClaimUpdate(w, dbErr)
    \/ \E w \in ws, ioErr, convErr \in faults : Convert(w, ioErr, convErr)
    \/ \E w \in ws, ioErr \in Bool : WriteConverted(w, ioErr)
    \/ \E w \in ws, dbErr \in Bool : Record(w, dbErr)
    \/ \E w \in ws, oldErr, rawErr \in faults : Cleanup(w, oldErr, rawErr)
    \/ \E w \in ws, dbErr \in Bool : Snapshot(w, dbErr)
    \/ \E w \in ws : Send(w)
    \/ \E w \in ws, dbErr \in Bool : Mark(w, dbErr)

ReconcileNext ==
    \/ \E dbErr, dirErr \in Bool : ReconcileStart(dbErr, dirErr)
    \/ \E dbErr \in Bool : ReconcileStep(dbErr)

LikeNext ==
    \/ \E h \in Likers, id \in RequestIds, dbErr \in Bool : Like(h, id, dbErr)
    \/ \E h \in Likers, dbErr \in Bool : LikeSnapshot(h, dbErr)
    \/ \E h \in Likers : LikeSend(h)
    \/ \E h \in Likers : LikeRespond(h)

UploadNext == \E content \in {"img", "corrupt"}, dbErr \in Bool : Upload(content, dbErr)

\* the task queue in one run of the process: the reconciler, uploads and the
\* workers, with the clock running
NextQueue ==
    \/ Tick
    \/ ReconcileNext
    \/ UploadNext
    \/ WorkerNext(Workers, Bool)

SpecQueue == Init /\ [][NextQueue]_vars

\* the task queue across restarts of the process; the clock moves while the
\* process is down
NextRestart ==
    \/ ReconcileNext
    \/ UploadNext
    \/ WorkerNext(Workers, {FALSE})
    \/ \E dt \in 0..1 : Restart(dt)

SpecRestart == Init /\ [][NextRestart]_vars

\* the pictures table: like requests against the re-conversion of a stored picture
\* and the conversion of a raw upload by one worker
NextLikes ==
    \/ Tick
    \/ ReconcileNext
    \/ WorkerNext({1}, {FALSE})
    \/ LikeNext

SpecLikes == Init /\ [][NextLikes]_vars

\* the newest pictures, read while pictures are inserted, re-converted and liked
ListNext == \E n \in 1..MaxLimit, dbErr \in Bool : List(n, dbErr)

\* the same steps when every store and file call succeeds
WorkerNextOK(ws) ==
    \/ \E w \in ws : ClaimSelect(w, FALSE)
    \/ \E w \in ws : ClaimUpdate(w, FALSE)
    \/ \E w \in ws : Convert(w, FALSE, FALSE)
    \/ \E w \in ws : WriteConverted(w, FALSE)
    \/ \E w \in ws : Record(w, FALSE)
    \/ \E w \in ws : Cleanup(w, FALSE, FALSE)
    \/ \E w \in ws : Snapshot(w, FALSE)
    \/ \E w \in ws : Send(w)
    \/ \E w \in ws : Mark(w, FALSE)

ReconcileNextOK ==
    \/ ReconcileStart(FALSE, FALSE)
    \/ ReconcileStep(FALSE)

NextQueueOK ==
    \/ Tick
    \/ ReconcileNextOK
    \/ \E content \in {"img", "corrupt"} : Upload(content, FALSE)
    \/ WorkerNextOK(Workers)

\* the same loops when the UPDATE of MarkTaskCompleted / MarkTaskFailed may fail,
\* every other call succeeding
NextQueueMarkFails ==
    \/ NextQueueOK
    \/ \E w \in Workers : Mark(w, TRUE)

FairQueueMarkFails ==
    /\ Init
    /\ [][NextQueueMarkFails]_vars
    /\ WF_vars(ReconcileNextOK)
    /\ \A w \in Workers : WF_vars(WorkerNextOK({w}))

NextList ==
    \/ Tick
    \/ ReconcileNextOK
    \/ WorkerNextOK({1})
    \/ LikeNext
    \/ ListNext

SpecList == Init /\ [][NextList]_vars

\* main() finishes the reconciler, and each worker goroutine keeps running its loop
FairQueue ==
    /\ Init
    /\ [][NextQueueOK]_vars
    /\ WF_vars(ReconcileNextOK)
    /\ \A w \in Workers : WF_vars(WorkerNextOK({w}))

Outcomes == {"ok", "garbled", "handler", "hub"}

HubNext ==
    \/ \E c \in Conns : HubRegister(c)
    \/ \E c \in Conns : HubUnregister(c)
    \/ \E c \in Conns, outcome \in Outcomes : HubWrite(c, outcome)
    \/ \E outcome \in Outcomes : HubUnblock(outcome)

ConnNext ==
    \/ \E c \in Conns : ConnUpgrade(c)
    \/ \E c \in Conns, dbErr \in Bool : ConnSnapshot(c, dbErr)
    \/ \E c \in Conns : ConnWriteInitial(c)
    \/ \E c \in Conns : ConnReadError(c)
    \/ \E c \in Conns : ConnBreak(c)
    \/ \E c \in Conns : ConnStall(c)
    \/ \E c \in Conns : ConnResume(c)

\* the hub and its connections, with like requests as the source of broadcasts
NextHub ==
    \/ ReconcileNextOK
    \/ LikeNext
    \/ ConnNext
    \/ HubNext

\* the hub reads neither the clock nor the zone
InitHub == Init /\ zone = "UTC"

SpecHub == InitHub /\ [][NextHub]_vars

\* the hub goroutine and the handlers keep running; nothing is assumed of the peers
FairHub ==
    /\ InitHub
    /\ [][NextHub]_vars
    /\ WF_vars(HubNext)
    /\ \A h \in Likers : WF_vars(LikeSend(h))

\* =================================================================== claims
TaskIds == 1..(MaxTasks + 2)

\* a worker holds the task ClaimNextTask returned to it until it has marked it
Holding(w) == wpc[w] \notin {"claim", "update"}
Holders(i) == {w \in Workers : Holding(w) /\ wtask[w] = i}

\* C1: for any interleaving of ClaimNextTask calls no task is returned to more than
\* one caller, and a task in status processing is held by at most one worker
C1_AtMostOneHolder ==
    \A i \in Rows(tasks) :
        /\ claimed[i] <= 1
        /\ Cardinality(Holders(i)) <= 1
        /\ Holders(i) # {} => tasks[i].status = "processing"

\* two callers selected the same row; one has won the conditional update and
\* holds the task, the other is about to run its UPDATE
C1_RaceWitness ==
    \E i \in Rows(tasks) :
        /\ tasks[i].status = "processing"
        /\ Holders(i) = {1}
        /\ wpc[2] = "update" /\ wtask[2] = i

\* C2: with callers that keep calling ClaimNextTask and store calls succeeding,
\* every pending task is eventually returned to some caller, and at most once
C2_EventuallyClaimedOnce ==
    \A i \in TaskIds :
        /\ [](i \in Rows(tasks) => claimed[i] <= 1)
        /\ (i \in Rows(tasks) /\ tasks[i].status = "pending")
              ~> (i \in Rows(tasks) /\ claimed[i] = 1)

\* two tasks were queued and each has been returned exactly once
C2_AllClaimedWitness ==
    /\ Len(tasks) >= 2
    /\ \A i \in Rows(tasks) : claimed[i] = 1 /\ tasks[i].status # "pending"

\* C3: when a step of processing a claimed task fails, the task is failed by the
\* time the worker is back at ClaimNextTask
C3_FailedBeforeNextClaim ==
    [][\A w \in Workers :
          (wpc[w] = "mark" /\ werr[w] # "" /\ wpc'[w] = "claim")
              => tasks'[wtask[w]].status = "failed"]_vars

\* C4: a claimed task does not stay in processing forever.  A task leaves
\* processing only when the worker that holds it marks it (ClaimNextTask selects
\* pending rows only), so every task in processing must have a holder
C4_ProcessingHasHolder ==
    \A i \in Rows(tasks) : tasks[i].status = "processing" => Holders(i) # {}

\* C5: task status is monotone: every change is pending -> processing,
\* processing -> completed or processing -> failed, and no row is removed
C5_StatusMonotone ==
    [][/\ Len(tasks') >= Len(tasks)
       /\ \A i \in Rows(tasks) :
            \/ tasks'[i].status = tasks[i].status
            \/ <<tasks[i].status, tasks'[i].status>> \in
                  {<<"pending", "processing">>, <<"processing", "completed">>,
                   <<"processing", "failed">>}]_vars

\* after a restart the reconciler has run again over a table that holds a
\* completed and a failed task
C5_TerminalAfterRestartWitness ==
    /\ restarts = 1 /\ mainpc = "run"
    /\ \E i, j \in Rows(tasks) : tasks[i].status = "completed" /\ tasks[j].status = "failed"

\* C6: CreateConversionTask with a path that already has a task changes nothing:
\* the table is as before and holds one task for that path
C6_DuplicateIsNoOp ==
    [][(mainpc = "enqueue" /\ HasPath(tasks, Head(recTodo).path))
          => /\ tasks' = tasks
             /\ \A i, j \in Rows(tasks') :
                   tasks'[i].original_path = tasks'[j].original_path => i = j]_vars

\* the reconciler of a restarted process has gone through uploads/original, which
\* holds the raw file of a task queued by an upload (under the client's file name),
\* now processing or failed
C6_RequeuedUploadWitness ==
    /\ restarts = 1 /\ mainpc = "run"
    /\ \E i \in Rows(tasks) :
         /\ tasks[i].original_name = UserFilename
         /\ tasks[i].status \in {"processing", "failed"}
         /\ Exists(files, tasks[i].original_path)
         /\ \A j \in Rows(tasks) : tasks[j].original_path = tasks[i].original_path => j = i

C8_FailedIsFinal ==
    [][\A i \in Rows(tasks) :
          tasks[i].status = "failed"
              => /\ Len(tasks') >= Len(tasks)
                 /\ tasks'[i] = tasks[i]
                 /\ claimed'[i] = claimed[i]
                 /\ \A j \in Rows(tasks') :
                       tasks'[j].original_path = tasks[i].original_path => j = i]_vars

\* a failed task whose raw input is still in uploads/original, after a restart
\* whose reconciler went through that directory and with a worker polling again
C8_FailedWithInputWitness ==
    /\ restarts = 1 /\ mainpc = "run"
    /\ \E i \in Rows(tasks) :
         /\ tasks[i].status = "failed"
         /\ tasks[i].original_path.dir = originalDir
         /\ Exists(files, tasks[i].original_path)
    /\ \E w \in Workers : wpc[w] = "update"

\* C9: no lost updates: the likes of a picture are its initial likes plus the
\* number of IncrementLikes calls on it that returned nil
C9_NoLostLikes ==
    \A r \in Rows(pictures) : pictures[r].likes = likes0[r] + likeOK[r]

\* two like requests for the same stored picture are in flight together, both
\* increments done
C9_ConcurrentLikesWitness ==
    \E r \in Rows(pictures) :
        /\ likes0[r] = 1 /\ likeOK[r] = 2 /\ pictures[r].likes = 3
        /\ lpc[1] = "snapshot" /\ lpc[2] = "snapshot"
        /\ lid[1] = lid[2]

\* C10: likes never decrease and change by exactly 1 with an accepted
\* IncrementLikes, and uploaded_at never changes; a re-conversion's rename of id
\* and url keeps both
C10_LikesAndCreatedAtKept ==
    [][/\ Len(pictures') >= Len(pictures)
       /\ \A r \in Rows(pictures) :
            /\ pictures'[r].uploaded_at = pictures[r].uploaded_at
            /\ \/ pictures'[r].likes = pictures[r].likes /\ likeOK'[r] = likeOK[r]
               \/ pictures'[r].likes = pictures[r].likes + 1 /\ likeOK'[r] = likeOK[r] + 1
            /\ pictures'[r].id # pictures[r].id
                  => /\ pictures'[r].likes = pictures[r].likes
                     /\ \E w \in Workers : wpc[w] = "record" /\ wpc'[w] = "cleanup"]_vars

\* the stored picture has been liked and then renamed by its re-conversion
C10_RenamedWitness ==
    \E r \in Rows(pictures) :
        /\ likes0[r] = 1 /\ pictures[r].likes > 1
        /\ IsWebp(pictures[r].id)
        /\ pictures[r].id.base = LegacyID.base
        /\ Parse(pictures[r].uploaded_at) = 0

\* a list is ranked: likes descending, rows of equal likes by the instant of
\* their upload (the UploadedAt the caller is handed), latest first
IsRanked(list) ==
    \A i, j \in DOMAIN list :
        i < j => \/ list[i].likes > list[j].likes
                 \/ /\ list[i].likes = list[j].likes
                    /\ Parse(list[i].uploaded_at) >= Parse(list[j].uploaded_at)
\* a list holds every row of the table once
HasAll(list, pics) ==
    /\ Len(list) = Len(pics)
    /\ \A r \in Rows(pics) : \E k \in DOMAIN list : list[k] = pics[r]

\* C11: every list GetAllPicturesSortedByLikes returns, after any insertions,
\* re-conversions and likes, holds all pictures, sorted by likes descending and,
\* among equal likes, by upload time descending
C11_RankedByLikesThenCreatedAt ==
    [][/\ \A h \in Likers :
            (lpc[h] = "snapshot" /\ lpc'[h] = "send")
                => IsRanked(lsnap'[h]) /\ HasAll(lsnap'[h], pictures)
       /\ \A w \in Workers :
            (wpc[w] = "snapshot" /\ wpc'[w] = "send")
                => IsRanked(wsnap'[w]) /\ HasAll(wsnap'[w], pictures)]_vars

\* the hub's write to connection c returns an error in this step
WriteFails(c) ==
    /\ hubpc \in {"fanout", "blocked"}
    /\ c \in hubTodo /\ c \notin hubTodo'
    /\ Dead(c)
    /\ mainpc' = "run"

\* C12: a connection whose write fails during a broadcast is removed from
\* h.clients and closed in that broadcast, and no later fan-out has it as a target
C12_FailedSendPruned ==
    /\ [](\A c \in Conns : closedBy[c] # <<>> => c \notin clients /\ c \notin hubTodo)
    /\ [][\A c \in Conns :
             WriteFails(c) => /\ c \notin clients'
                              /\ c \notin hubTodo'
                              /\ closedBy'[c] = <<"broadcast">>]_vars

\* a connection was pruned by a failed write and a later broadcast has just begun
\* its fan-out over the remaining connections
C12_LaterBroadcastWitness ==
    \E c \in Conns :
        /\ closedBy[c] = <<"broadcast">>
        /\ hubpc = "fanout" /\ hubTodo = clients /\ clients # {}

\* C13: the first unregister of an active connection removes and closes it; an
\* unregister of a connection that is not in h.clients changes nothing; the hub
\* closes a connection at most once
C13_UnregisterIdempotent ==
    /\ [](\A c \in Conns : Len(closedBy[c]) <= 1)
    /\ [][\A c \in Conns :
             (cpc[c] = "unregister" /\ cpc'[c] = "done" /\ mainpc' = "run")
                 => IF c \in clients
                    THEN clients' = clients \ {c} /\ closedBy'[c] = <<"unregister">>
                    ELSE clients' = clients /\ closedBy' = closedBy]_vars

\* one connection was pruned by a failed broadcast write and its read loop's
\* unregister has been handled since; another was closed by its unregister
C13_BothKindsWitness ==
    \E c, d \in Conns :
        /\ closedBy[c] = <<"broadcast">> /\ ninit[c] = 1 /\ cpc[c] = "done"
        /\ closedBy[d] = <<"unregister">> /\ cpc[d] = "done"
        /\ mainpc = "run"

\* C14: every connection that registers is sent exactly one message by its
\* handler, the full ranked list, right after registration
C14_InitialSnapshotOnRegister ==
    /\ [](\A c \in Conns : ninit[c] <= 1)
    /\ [][\A c \in Conns :
             /\ (cpc[c] = "initial" /\ cpc'[c] = "writing")
                   => csnap'[c] \in GetAllPicturesSortedByLikes(pictures)
             /\ (cpc[c] = "writing" /\ cpc'[c] # "writing" /\ ~Dead(c) /\ cstate'[c] = "open")
                   => ninit'[c] = 1 /\ got'[c] = csnap[c]]_vars

\* likes and conversions have stopped and no broadcast or handshake is under way
Quiet ==
    /\ mainpc = "run"
    /\ hubpc = "select"
    /\ \A h \in Likers : lpc[h] = "idle"
    /\ \A w \in Workers : wpc[w] = "claim"
    /\ \A c \in Conns : cpc[c] \notin {"register", "initial", "writing"}

\* C15: once likes and conversions have stopped and every broadcast is delivered,
\* the last message of every live connection in h.clients is the current ranked list
C15_ViewersConverge ==
    Quiet => \A c \in clients :
                (cstate[c] = "open" /\ ~Dead(c))
                    => got[c] \in GetAllPicturesSortedByLikes(pictures)

\* C16: a peer that takes no data does not block the broadcast: a handler waiting
\* to hand a message to the hub gets through, a waiting register or unregister is
\* taken, and every other live connection of a fan-out is served
C16_SlowClientDoesNotBlock ==
    /\ \A h \in Likers : (lpc[h] = "send") ~> (lpc[h] # "send")
    /\ \A c \in Conns :
          /\ (cpc[c] = "register") ~> (cpc[c] # "register")
          /\ (cpc[c] = "unregister") ~> (cpc[c] # "unregister")
          /\ (c \in hubTodo /\ cstate[c] = "open")
                ~> (c \notin hubTodo \/ cstate[c] # "open")

\* C17: h.clients is read and written by the hub loop only, one message at a
\* time: while a fan-out is under way no register, unregister or broadcast is
\* taken, and h.clients changes only by the removal of the connection whose
\* write failed
C17_OneMessageAtATime ==
    [][(hubpc # "select" /\ mainpc' = "run")
          => /\ \A c \in Conns :
                   cpc[c] \in {"register", "unregister"} => cpc'[c] = cpc[c]
             /\ \A h \in Likers : lpc[h] = "send" => lpc'[h] = "send"
             /\ \A w \in Workers : wpc[w] = "send" => wpc'[w] = "send"
             /\ hubMsg' \in {hubMsg, NoSnap}
             /\ \/ clients' = clients
                \/ \E c \in hubTodo : WriteFails(c) /\ clients' = clients \ {c}]_vars

\* during a fan-out a register, an unregister and a broadcast are all waiting
C17_AllWaitingWitness ==
    /\ hubpc = "fanout"
    /\ \E c, d \in Conns : cpc[c] = "register" /\ cpc[d] = "unregister" /\ d \in hubTodo
    /\ \E h \in Likers : lpc[h] = "send"

\* the task a worker holds, and whether it is a new upload (no picture_id)
Held(w) == tasks[wtask[w]]
NewUpload(t) == t.picture_id = EmptyID
\* the pictures that new-upload tasks account for: one for every such task that
\* is completed and one for every such task whose worker is past its insert
Accounted ==
    Cardinality({i \in Rows(tasks) : NewUpload(tasks[i]) /\ tasks[i].status = "completed"})
  + Cardinality({w \in Workers : /\ wpc[w] \in {"cleanup", "snapshot", "send", "mark"}
                                 /\ werr[w] = ""
                                 /\ NewUpload(Held(w))})
InsertedPictures == Cardinality({r \in Rows(pictures) : pictures[r].filename # UserFilename
                                                        \/ IsWebp(pictures[r].id)})
                    - Cardinality({i \in Rows(tasks) : ~NewUpload(tasks[i])
                                                        /\ tasks[i].status = "completed"})
                    - Cardinality({w \in Workers : /\ wpc[w] \in {"cleanup", "snapshot", "send", "mark"}
                                                   /\ werr[w] = ""
                                                   /\ ~NewUpload(Held(w))})

\* C18: for a new-upload task whose processing succeeds exactly one picture is
\* inserted, with likes 0 and a url that names the written WebP file, and the
\* task is completed when the worker is done with it
C18_NewUploadBecomesOnePicture ==
    /\ [](InsertedPictures = Accounted)
    /\ [][\A w \in Workers :
             /\ (wpc[w] = "record" /\ wpc'[w] = "cleanup" /\ NewUpload(Held(w)))
                   => /\ Len(pictures') = Len(pictures) + 1
                      /\ LET pic == pictures'[Len(pictures')] IN
                           /\ pic.id = wnew[w] /\ pic.url = UrlOf(wnew[w])
                           /\ pic.likes = 0
                           /\ IsWebp(pic.id)
                           /\ Exists(files, Join(uploadDir, pic.id))
                           /\ files[Join(uploadDir, pic.id)] = "webp"
             /\ (wpc[w] = "mark" /\ werr[w] = "" /\ wpc'[w] = "claim" /\ NewUpload(Held(w)))
                   => tasks'[wtask[w]].status = "completed"]_vars

\* C19: a task whose input cannot be read or decoded ends failed with a
\* non-empty error, and no picture is created or changed for it
C19_BadInputFails ==
    [][\A w \in Workers :
          /\ (wpc[w] = "convert" /\ wpc'[w] = "mark")
                => werr'[w] \in {"read original", "convert to webp"} /\ pictures' = pictures
          /\ (wpc[w] = "mark" /\ werr[w] \in {"read original", "convert to webp"}
                /\ wpc'[w] = "claim")
                => /\ tasks'[wtask[w]].status = "failed"
                   /\ tasks'[wtask[w]].error # ""
                   /\ pictures' = pictures]_vars

\* the input of task i is there and is an image
GoodInput(i) ==
    /\ i \in Rows(tasks)
    /\ Exists(files, tasks[i].original_path)
    /\ Decodable(files[tasks[i].original_path])

\* C20: with two workers, tasks of distinct paths whose conversions succeed all
\* reach completed, each is processed by one worker only, and each yields one
\* picture
C20_TwoWorkersBothCompleted ==
    /\ \A i \in TaskIds :
          (GoodInput(i) /\ tasks[i].status = "pending")
              ~> (i \in Rows(tasks) /\ tasks[i].status = "completed")
    /\ [](\A i \in Rows(tasks) : claimed[i] <= 1 /\ Cardinality(Holders(i)) <= 1)
    /\ [](InsertedPictures = Accounted)

\* the record step of a re-conversion changes id and url of the target picture
\* and nothing else of the table
RenamedInPlace(w) ==
    /\ Len(pictures') = Len(pictures)
    /\ \E r \in Rows(pictures) : pictures[r].id = Held(w).picture_id
    /\ \A r \in Rows(pictures) :
          pictures'[r] = IF pictures[r].id = Held(w).picture_id
                         THEN [pictures[r] EXCEPT !.id = wnew[w], !.url = UrlOf(wnew[w])]
                         ELSE pictures[r]
\* worker w takes the step from pc a to pc b for a task that targets a picture
ReconversionStep(w, a, b) == wpc[w] = a /\ wpc'[w] = b /\ ~NewUpload(Held(w))
OldPath(w) == Join(uploadDir, Held(w).picture_id)

RECURSIVE RunCalls(_, _, _)
RunCalls(ts, calls, t) ==
    IF calls = <<>> THEN ts
    ELSE RunCalls(CreateConversionTask(ts, Head(calls).path, Head(calls).name,
                                       Head(calls).pictureID, t),
                  Tail(calls), t)
CallsOf(ranked, fs) == LegacyCalls(ranked, fs) \o OriginalCalls(ReadDir(fs))
\* conversion_tasks has a row for the path
Queued(path) == \E i \in Rows(tasks) : tasks[i].original_path = path
\* every stored picture with a non-webp id and a file, and every raw input, has a task
AllQueued ==
    /\ \A r \in Rows(pictures) :
          ~IsWebp(pictures[r].id) /\ Exists(files, Join(uploadDir, pictures[r].id))
             => Queued(Join(uploadDir, pictures[r].id))
    /\ \A n \in OriginalNames(files) : Queued(Join(originalDir, n))

\* C22: the reconciler is idempotent: a second run over the same pictures and
\* files, at the same or a later time, leaves the task table as the first run
\* left it; a run over a table that has a task for every legacy picture and raw
\* input changes nothing, and neither does any of its calls for a path that has a task
C22_ReconcilerIdempotent ==
    /\ [](\A ranked \in GetAllPicturesSortedByLikes(pictures) :
            LET calls == CallsOf(ranked, files)
                once == RunCalls(tasks, calls, now)
            IN /\ \A t \in now..MaxNow : RunCalls(once, calls, t) = once
               /\ AllQueued => once = tasks)
    /\ [][mainpc = "enqueue" /\ Queued(Head(recTodo).path) => tasks' = tasks]_vars

\* the second run of the reconciler is about to queue a path whose task of the
\* first run has left the pending state
C22_SecondRunWitness ==
    /\ restarts = 1 /\ mainpc = "enqueue"
    /\ \E i \in Rows(tasks) :
          /\ tasks[i].original_path = Head(recTodo).path
          /\ tasks[i].status # "pending"

\* conversion_tasks has a row for the path with that picture_id
QueuedFor(ts, path, pictureID) ==
    \E i \in Rows(ts) : ts[i].original_path = path /\ ts[i].picture_id = pictureID
\* what a finished run is to leave behind: a task targeting every stored picture
\* with a non-webp id and a file, and a task for every raw input
Reconciled ==
    /\ \A r \in Rows(pictures) :
          ~IsWebp(pictures[r].id) /\ Exists(files, Join(uploadDir, pictures[r].id))
             => QueuedFor(tasks, Join(uploadDir, pictures[r].id), pictures[r].id)
    /\ \A n \in OriginalNames(files) : Queued(Join(originalDir, n))
ReconcilerRuns == mainpc \in {"reconcile", "enqueue"}

SameRun == restarts' = restarts
\* some worker goroutine moves: it claims, converts or marks
WorkerMoves == <<wpc, wtask, wnew, werr, wsnap>>' # <<wpc, wtask, wnew, werr, wsnap>>

\* C24: in each run of the process the reconciler runs once and to its end before
\* the worker loop's first ClaimNextTask: no worker moves while the reconciler is
\* under way, the reconciler queues with every worker still before its first
\* claim, and once it has finished it does not start again in that run
C24_ReconcilerBeforeWorker ==
    [][SameRun
         => /\ WorkerMoves => mainpc = "run" /\ mainpc' = "run" /\ recTodo = <<>>
            /\ ReconcilerRuns
                 => /\ \A w \in Workers : wpc[w] = "claim" /\ wtask[w] = 0
                    /\ mainpc' \in {"enqueue", "run"}
                    /\ \A i \in Rows(tasks) : tasks'[i] = tasks[i]
            /\ mainpc = "run" => mainpc' = "run" /\ recTodo' = <<>>]_vars

\* a worker holds a task that the finished reconciler of this run queued
C24_ClaimAfterReconcileWitness ==
    /\ mainpc = "run" /\ recTodo = <<>>
    /\ \E w \in Workers :
          /\ wpc[w] = "update"
          /\ tasks[wtask[w]].picture_id = LegacyID

\* the errors processConversionTask returns for a failed store call
StoreErrors == {"update picture record", "insert picture"}

\* C25: a store access error is never surfaced to a task: a worker whose store
\* call fails goes back to claiming with its task, if it holds one, not failed,
\* and no task is failed with the error of a store call
C25_StoreErrorNotSurfaced ==
    /\ \A w \in Workers : wpc[w] = "mark" => werr[w] \notin StoreErrors
    /\ \A i \in Rows(tasks) : tasks[i].status = "failed" => tasks[i].error \notin StoreErrors

\* what a like request leaves alone when it ends at once: the pictures, the
\* handlers' positions and everything on the way to the viewers
LikeEndsAtOnce ==
    /\ UNCHANGED <<pictures, likeOK, lpc, lid, lsnap>>
    /\ UNCHANGED <<hubpc, hubMsg, hubTodo, hubCur, clients, got>>

\* C26: IncrementLikes on an id no picture has returns "picture not found", and
\* the like request for it changes no picture's likes, hands nothing to the hub
\* and ends at once (the handler does not go on to the snapshot, and does not
\* call IncrementLikes again)
C26_UnknownIdNotFound ==
    /\ [](\A id \in RequestIds \ PicIds(pictures) :
             IncrementLikesErr(pictures, id) = "picture not found")
    /\ [][\A h \in Likers, dbErr \in BOOLEAN :
             \A id \in RequestIds \ PicIds(pictures) :
                 Like(h, id, dbErr) => LikeEndsAtOnce]_vars

\* a like request can arrive for an id that no picture has (the id the stored
\* picture had before its re-conversion, still named by its task), after a like
\* that was counted
C26_StaleIdWitness ==
    /\ mainpc = "run" /\ Total(likeOK) = 1
    /\ \E h \in Likers : lpc[h] = "idle"
    /\ LegacyID \in RequestIds \ PicIds(pictures)
    /\ UnknownID \in RequestIds \ PicIds(pictures)
    /\ pictures # <<>>

\* rows is an answer to "the n newest pictures of pics, newest first"
IsRecent(rows, pics, n) ==
    /\ Len(rows) <= n
    /\ Len(rows) = n \/ Len(rows) = Len(pics)
    /\ \A i \in Rows(rows) : \E r \in Rows(pics) : pics[r] = rows[i]
    /\ \A i, j \in Rows(rows) : i # j => rows[i].id # rows[j].id
    /\ \A i, j \in Rows(rows) :
          i < j => Parse(rows[i].uploaded_at) >= Parse(rows[j].uploaded_at)
    /\ \A r \in Rows(pics) :
          (\A i \in Rows(rows) : rows[i].id # pics[r].id)
             => \A i \in Rows(rows) :
                   Parse(rows[i].uploaded_at) >= Parse(pics[r].uploaded_at)

\* C27: GetLastPictures(limit) returns at most limit pictures, the ones with the
\* newest uploaded_at, newest first, whatever insertions, re-conversions and
\* likes came before
C27_NewestFirstUpToLimit ==
    [][\A n \in 1..MaxLimit :
          List(n, FALSE) => IsRecent(listed'.rows, pictures, listed'.limit)]_vars

\* C28: at every reachable state no two pictures share an id, also after the
\* rename of a re-conversion and after two conversions computed the same new id
C28_PictureIdsUnique ==
    \A r, q \in Rows(pictures) : r # q => pictures[r].id # pictures[q].id

\* two conversions computed the same new id and wrote the same file: one picture
\* carries the id, and the other worker's insert was refused
C28_SameIdRefusedWitness ==
    /\ \E w1, w2 \in Workers :
          /\ w1 # w2 /\ wnew[w1] = wnew[w2]
          /\ wpc[w1] = "mark" /\ werr[w1] = "insert picture"
          /\ wnew[w2] \in PicIds(pictures)
          /\ Exists(files, Join(uploadDir, wnew[w1]))
    /\ Len(pictures) = 1

\* C29: in a successful cycle the task is marked completed before its snapshot is
\* pushed to the hub: whenever the hub receives the snapshot of a conversion,
\* that task's status is completed
C29_CompletedBeforeBroadcast ==
    [][\A w \in Workers :
          wpc[w] = "send" /\ wpc'[w] = "mark"
             => tasks[wtask[w]].status = "completed"]_vars

\* C30: the worker never writes converted output over an existing file: whenever
\* it writes, no file exists at the path it writes to (one already at the
\* computed path has made it choose a suffixed one) and every existing file
\* keeps its content, with one worker or more
C30_NeverOverwrites ==
    [][\A w \in Workers :
          wpc[w] = "write" /\ wpc'[w] = "record"
             => /\ ~Exists(files, Join(uploadDir, wnew[w]))
                /\ \A p \in DOMAIN files : Exists(files', p) /\ files'[p] = files[p]]_vars

Completed(i) == tasks[i].status = "completed"
RawGone(fs, i) == ~Exists(fs, tasks[i].original_path)

Returned(w, i) ==
    wpc[w] = "update" /\ wtask[w] = i /\ wpc'[w] = "convert" /\ wtask'[w] = i

\* C32: a ClaimNextTask call that returns no task (none pending, the race for the
\* row lost, or a store error) leaves the task table as it was, and a task
\* becomes processing only in the step that returns it to a caller
C32_ClaimWithoutTaskChangesNothing ==
    [][/\ \A w \in Workers, dbErr \in BOOLEAN :
             /\ ClaimSelect(w, dbErr) => tasks' = tasks
             /\ ClaimUpdate(w, dbErr) /\ wpc'[w] = "claim"
                  => tasks' = tasks /\ wtask'[w] = 0
       /\ \A i \in Rows(tasks) :
             tasks[i].status # "processing" /\ tasks'[i].status = "processing"
                => /\ \E w \in Workers : Returned(w, i)
                   /\ \A j \in Rows(tasks) \ {i} : tasks'[j] = tasks[j]]_vars

\* a worker is about to lose the race for a row another worker has just taken,
\* while another task is still pending
C32_LostRaceWitness ==
    \E w1, w2 \in Workers :
        /\ w1 # w2 /\ wpc[w1] = "update" /\ wpc[w2] = "convert"
        /\ wtask[w1] = wtask[w2]
        /\ tasks[wtask[w1]].status = "processing"
        /\ Pending(tasks) # {}

\* C33: at every reachable state a task carries an error text exactly when its
\* status is failed: pending, processing and completed tasks have none
C33_ErrorIffFailed ==
    \A i \in Rows(tasks) : (tasks[i].error # "") <=> (tasks[i].status = "failed")

\* one task has failed with the text of its conversion error and another one
\* has been completed
C33_FailedAndCompletedWitness ==
    \E i, j \in Rows(tasks) :
        /\ tasks[i].status = "failed" /\ tasks[i].error = "convert to webp"
        /\ tasks[j].status = "completed" /\ tasks[j].error = ""

\* handler h leaves position a in this step
Leaves(h, a) == lpc[h] = a /\ lpc'[h] # a
\* a list shows every picture with all the likes accepted so far
ShowsAcceptedLikes(list) ==
    /\ Len(list) = Len(pictures)
    /\ \A r \in Rows(pictures) :
          \E k \in DOMAIN list :
              /\ list[k].id = pictures[r].id
              /\ list[k].likes = likes0[r] + likeOK[r]
\* nothing is handed to the hub in this step
NoPush == UNCHANGED <<hubpc, hubTodo, hubMsg, hubCur, clients>>

Resolved(j) == j \in Rows(tasks) /\ tasks[j].status \in {"completed", "failed"}

\* C35: a failed task does not stop the worker loop: once a task is failed, every
\* other task that is pending, whether created before or after it, is eventually
\* claimed and resolved to completed or failed
C35_LoopSurvivesFailure ==
    \A i, j \in TaskIds :
        (/\ i # j /\ i \in Rows(tasks) /\ j \in Rows(tasks)
         /\ tasks[i].status = "failed" /\ tasks[j].status = "pending")
            ~> (Resolved(j) /\ claimed[j] >= 1)

\* Hub.run calls conn.WriteMessage on connection c in this step
HubWrites(c) ==
    /\ hubpc = "fanout" /\ c \in hubTodo /\ hubpc' # "down"
    /\ c \notin hubTodo' \/ (hubpc' = "blocked" /\ hubCur' = c)
\* handleWebSocket is inside conn.WriteMessage(initial) on connection c
HandlerWrites(c) == cpc[c] = "writing"

\* C36: at most one write to a connection is in progress at any time: the hub
\* loop never calls WriteMessage on a connection, and is never waiting inside that
\* call, while the connection's handler is inside its write of the initial message
C36_OneWriterPerConnection ==
    /\ [](hubpc = "blocked" => ~HandlerWrites(hubCur))
    /\ [][\A c \in Conns : HubWrites(c) => ~HandlerWrites(c)]_vars

\* how far the store had come when a ranked list was read: rows are only added
\* and likes only grow, so a list read later never has a smaller count
Progress(list) == Len(list) + Total([k \in DOMAIN list |-> list[k].likes])
\* the handler's write of the initial message reaches the peer in this step
InitialArrives(c) ==
    cpc[c] = "writing" /\ cpc'[c] = "reading" /\ ninit'[c] = ninit[c] + 1

\* C37: a newly registered connection never receives its initial snapshot after
\* a broadcast that carries newer store state: when the initial message arrives,
\* the last message the peer has is not a list read later than the initial one
C37_InitialNotAfterNewerBroadcast ==
    [][\A c \in Conns :
          InitialArrives(c) => Progress(got[c]) <= Progress(csnap[c])]_vars

SumLikes(pics) == Total([r \in DOMAIN pics |-> pics[r].likes])

\* C38: no accepted like is lost across a re-conversion: at every state the likes
\* of all pictures add up to the likes they had when first stored plus the number
\* of IncrementLikes calls that returned nil; the rename of a picture's id changes
\* neither side, and a like for the old id after the rename is refused and counts
\* on neither side
C38_LikesSumAcrossRename ==
    /\ [](SumLikes(pictures) = Total(likes0) + Total(likeOK))
    /\ [][/\ \A w \in Workers :
                ReconversionStep(w, "record", "cleanup")
                   => /\ SumLikes(pictures') = SumLikes(pictures)
                      /\ likeOK' = likeOK
          /\ \A h \in Likers, dbErr \in BOOLEAN :
                Like(h, LegacyID, dbErr) /\ LegacyID \notin PicIds(pictures)
                   => UNCHANGED <<pictures, likeOK, lpc>>]_vars

\* the stored picture has been renamed by its re-conversion and carries its initial
\* like and two accepted ones; a like for its old id can still arrive
C38_RenamedWithLikesWitness ==
    \E r \in Rows(pictures) :
        /\ IsWebp(pictures[r].id) /\ likes0[r] = 1 /\ likeOK[r] = 2
        /\ pictures[r].likes = 3
        /\ LegacyID \in RequestIds \ PicIds(pictures)

\* the file a locator is served from: the route /uploads/ strips its prefix and
\* serves from uploadDir
Served(url) == IF url[1] = "/uploads/" THEN Join(uploadDir, url[2])
               ELSE Join(originalDir, url[2])

\* C39: at every reachable state the url of every picture the worker has written
\* (inserted after a conversion, or renamed by a re-conversion) names an output
\* file that exists, and it is the file of the picture's id
C39_LocatorFileExists ==
    \A r \in Rows(pictures) :
        IsWebp(pictures[r].id)
           => /\ Served(pictures[r].url) = Join(uploadDir, pictures[r].id)
              /\ Exists(files, Served(pictures[r].url))

\* the stored picture has been re-converted and its old output file removed, next
\* to a picture inserted for a raw upload: both locators name existing files
C39_RenamedAndInsertedWitness ==
    /\ Len(pictures) = 2
    /\ \A r \in Rows(pictures) :
          IsWebp(pictures[r].id) /\ Exists(files, Served(pictures[r].url))
    /\ ~Exists(files, Join(uploadDir, LegacyID))
    /\ \E r \in Rows(pictures) : pictures[r].likes = 1

====
